---------------------------- MODULE Spec2Model ----------------------------
(***************************************************************************)
(* Bear/bull market segmentation of a price series (src/main.py).          *)
(*                                                                         *)
(* The model follows main(): find_bear_markets scans the series with an    *)
(* outer anchor i and an inner index j, then identify_bull_markets fills   *)
(* the gaps between the detected bear intervals with bull regimes.         *)
(*                                                                         *)
(* Prices are positive integers and the recovery limit is a rational       *)
(* <<num, den>> (den > 0), so that `p <= q * (1 - r)' is decided exactly   *)
(* as p * den <= q * (den - num).  Percentages are kept as unreduced       *)
(* fractions [num, den].  Python indices are 0-based: At(s, k) reads       *)
(* position k.  The series' dates are one sample every 7 days (line 11).   *)
(***************************************************************************)
EXTENDS Integers, Sequences, FiniteSets, TLC

\* ------------------------------------------------------------------ bounds
MaxLen == 5
MaxPrice == 3

\* ------------------------------------------------------------ input domain
Prices == 1..MaxPrice

RECURSIVE SeqsOfLen(_)
SeqsOfLen(n) ==
  IF n = 0 THEN {<< >>}
  ELSE {Append(s, p) : s \in SeqsOfLen(n - 1), p \in Prices}

PriceSeries == UNION {SeqsOfLen(n) : n \in 0..MaxLen}

\* recovery limits inside (0,1): 1/4 and 1/2 (exact in binary floating point)
ValidLimits == {<<1, 4>>, <<1, 2>>}
\* recovery limits outside (0,1): 0, 1, -1/4, 3/2
InvalidLimits == {<<0, 1>>, <<1, 1>>, <<-1, 4>>, <<3, 2>>}
Limits == ValidLimits \cup InvalidLimits

\* the series and the threshold of the worked scenario (default threshold,
\* line 229): 100 -> 79 is a 21% decline, 95 recovers 20% from 79
ScenarioPrices == <<100, 90, 79, 85, 95>>
ScenarioLimit == <<1, 5>>

\* series whose prices sit exactly on a threshold: 2 = 4 * (1 - 1/2) and
\* 3 = 2 * (1 + 1/2); 6 = 8 * (1 - 1/4) and 5 = 4 * (1 + 1/4)
ThresholdInputs ==
  {<< <<4, 2, 3>>, <<1, 2>> >>, << <<8, 6, 4, 5, 5>>, <<1, 4>> >>}

\* the arguments of find_bear_markets that are explored
Inputs ==
  (PriceSeries \X Limits) \cup {<<ScenarioPrices, ScenarioLimit>>}
    \cup ThresholdInputs

\* the output list is capped so that a non-advancing scan stays finite
MaxIntervals == MaxLen + 1

\* --------------------------------------------------------- Python helpers
None == -1

\* Python truthiness of an optional index: None and 0 are both falsy
Truthy(x) == x # None /\ x # 0

At(s, k) == s[k + 1]

\* data.index[k]: the k-th sample date, in days since the first sample
Date(k) == 7 * k

\* data.index[-1]
LastDate(s) == Date(Len(s) - 1)

\* data.loc[d]: the price stored under date d
Loc(s, d) == At(s, d \div 7)

\* ------------------------------------------------------- detector helpers
\* line 62: price_now <= price_start * (1 - recovery_limit)
MutDeclineSignSlip(pn, ps, r) == pn * r[2] <= ps * (r[2] + r[1])
DeclineBreached(pn, ps, r) == pn * r[2] <= ps * (r[2] - r[1])

\* line 68: price_now < min_value
MutNewMinFlipped(pn, mv) == pn > mv
IsNewMin(pn, mv) == pn < mv

\* line 71: price_now >= min_value * (1 + recovery_limit)
MutRecoverySignSlip(pn, mv, r) == pn * r[2] >= mv * (r[2] - r[1])
MutRecoveryStrict(pn, mv, r) == pn * r[2] > mv * (r[2] + r[1])
RecoveryBreached(pn, mv, r) == pn * r[2] >= mv * (r[2] + r[1])

\* line 72: bear_end = j - 1
MutRecoveryEndAtJ(jj) == jj
MutRecoveryEndTwoBack(jj) == jj - 2
RecoveryEnd(jj) == jj - 1

\* lines 76, 84: ((min_value - price_start) / price_start) * 100
MutPercentLossRebased(mv, ps) == [num |-> (mv - ps) * 100, den |-> mv]
PercentLoss(mv, ps) == [num |-> (mv - ps) * 100, den |-> ps]

\* line 78: bear_end if bear_end else j
MutAnchorBeforeEnd(be, jj) == IF Truthy(be) THEN be - 1 ELSE jj
AnchorAfterBear(be, jj) == IF Truthy(be) THEN be ELSE jj

\* line 77, 85: the tuple appended to bear_markets
Interval(bs, bm, be, pl) == [start |-> bs, trough |-> bm, end |-> be, loss |-> pl]

\* ---------------------------------------------------- synthesizer helpers
\* line 109: last_bear = None (a value no Bear regime equals)
NoBear ==
  [Market_Type |-> "None", Peak_Date |-> None, Trough_Date |-> None,
   Peak_Price |-> 0, Trough_Price |-> 0,
   Percent_Loss |-> [num |-> 0, den |-> 1], Number_Of_Days |-> 0]

\* lines 112-122: the Bear regime of one interval of the detector
BearRegime(s, b) ==
  [Market_Type |-> "Bear",
   Peak_Date |-> Date(b.start),
   Trough_Date |-> Date(b.trough),
   Peak_Price |-> At(s, b.start),
   Trough_Price |-> At(s, b.trough),
   Percent_Loss |-> b.loss,
   Number_Of_Days |-> IF Truthy(b.end) THEN Date(b.end) - Date(b.start)
                      ELSE LastDate(s) - Date(b.start)]

\* lines 133-141, 148-159: a Bull regime between two dated prices
BullRegime(start_date, end_date, start_value, end_value) ==
  [Market_Type |-> "Bull",
   Trough_Date |-> start_date,
   Peak_Date |-> end_date,
   Trough_Price |-> start_value,
   Peak_Price |-> end_value,
   Percent_Gain |-> [num |-> (end_value - start_value) * 100, den |-> start_value],
   Number_Of_Days |-> end_date - start_date]

\* line 131: a Bull regime is inserted before the bear that peaks at peak_date
GapBefore(lbe, peak_date) == lbe < peak_date

\* line 146: a Bull regime is appended after the last bear
MutGapAfterInclusive(lbe, s) == lbe <= LastDate(s)
GapAfter(lbe, s) == lbe < LastDate(s)

VARIABLES
  data,            \* the price series (argument)
  recovery_limit,  \* the threshold (argument)
  pc,              \* position in main / find_bear_markets / identify_bull_markets
  err,             \* the exception raised, "none" if none
  bound,           \* names of the locals of find_bear_markets that are bound
  bear_markets, bear_start, bear_end, bear_min, in_bear_market, min_value,
  i, j, it,        \* it: the next value of range(i + 1, len(data))
  price_start, price_now, percent_loss,
  final_periods,   \* identify_bull_markets: the timeline being built
  last_bear_end,   \* identify_bull_markets: Trough Date of the last bear
  last_bear,       \* identify_bull_markets: the last Bear regime, or NoBear
  k                \* identify_bull_markets: position in bear_markets (from 1)

detector == <<bound, bear_markets, bear_start, bear_end, bear_min,
              in_bear_market, min_value, i, j, it, price_start, price_now,
              percent_loss>>

synth == <<final_periods, last_bear_end, last_bear, k>>

vars == <<data, recovery_limit, pc, err, detector, synth>>

\* lines 42-46: the call, up to the first test of the outer loop
Init ==
  /\ \E input \in Inputs : data = input[1] /\ recovery_limit = input[2]
  /\ pc = "while"
  /\ err = "none"
  /\ bound = {"bear_markets", "bear_start", "bear_end", "i"}
  /\ bear_markets = << >>
  /\ bear_start = None
  /\ bear_end = None
  /\ i = 0
  \* not yet bound: the values below are placeholders, never read unbound
  /\ bear_min = None
  /\ in_bear_market = FALSE
  /\ min_value = 0
  /\ j = None
  /\ it = 0
  /\ price_start = 0
  /\ price_now = 0
  /\ percent_loss = [num |-> 0, den |-> 1]
  \* identify_bull_markets has not been called
  /\ final_periods = << >>
  /\ last_bear_end = None
  /\ last_bear = NoBear
  /\ k = 0

\* lines 47-52: the outer loop's test and the reset of the scan state
WhileEnter ==
  /\ pc = "while"
  /\ i < Len(data) - 1
  /\ bear_start' = i
  /\ bear_min' = i
  /\ bear_end' = None
  /\ in_bear_market' = FALSE
  /\ min_value' = At(data, i)
  /\ it' = i + 1
  /\ bound' = bound \cup {"bear_min", "in_bear_market", "min_value"}
  /\ pc' = "for"
  /\ UNCHANGED <<data, recovery_limit, err, bear_markets, i, j,
                 price_start, price_now, percent_loss, synth>>

\* line 47: the outer loop's test fails
WhileExit ==
  /\ pc = "while"
  /\ ~(i < Len(data) - 1)
  /\ pc' = "post_loop"
  /\ UNCHANGED <<data, recovery_limit, err, detector, synth>>

\* lines 54-73: one iteration of the inner loop
ForIter ==
  /\ pc = "for"
  /\ it < Len(data)
  /\ LET ps == At(data, bear_start)
         pn == At(data, it)
         abandon == ~in_bear_market /\ pn > ps
         enter == ~in_bear_market /\ ~abandon
                    /\ DeclineBreached(pn, ps, recovery_limit)
         inb == in_bear_market \/ enter
         mv == IF enter THEN pn ELSE min_value
         bm == IF enter THEN it ELSE bear_min
         newmin == inb /\ IsNewMin(pn, mv)
         recovered == inb /\ ~newmin /\ RecoveryBreached(pn, mv, recovery_limit)
     IN /\ j' = it
        /\ it' = it + 1
        /\ price_start' = ps
        /\ price_now' = pn
        /\ i' = IF abandon THEN it ELSE i
        /\ in_bear_market' = inb
        /\ min_value' = IF newmin THEN pn ELSE mv
        /\ bear_min' = IF newmin THEN it ELSE bm
        /\ bear_end' = IF recovered THEN RecoveryEnd(it) ELSE bear_end
        /\ pc' = IF abandon \/ recovered THEN "after_for" ELSE "for"
  /\ bound' = bound \cup {"j", "price_start", "price_now"}
  /\ UNCHANGED <<data, recovery_limit, err, bear_markets, bear_start,
                 percent_loss, synth>>

\* line 54: range(i + 1, len(data)) is exhausted
ForExhausted ==
  /\ pc = "for"
  /\ ~(it < Len(data))
  /\ pc' = "after_for"
  /\ UNCHANGED <<data, recovery_limit, err, detector, synth>>

\* lines 75-80: record the bear market of this anchor and move the anchor
AfterFor ==
  /\ pc = "after_for"
  /\ IF in_bear_market
       THEN /\ Len(bear_markets) < MaxIntervals
            /\ percent_loss' = PercentLoss(min_value, price_start)
            /\ bear_markets' = Append(bear_markets,
                 Interval(bear_start, bear_min, bear_end, percent_loss'))
            /\ i' = AnchorAfterBear(bear_end, j)
            /\ bound' = bound \cup {"percent_loss"}
       ELSE /\ i' = i + 1
            /\ UNCHANGED <<percent_loss, bear_markets, bound>>
  /\ pc' = "while"
  /\ UNCHANGED <<data, recovery_limit, err, bear_start, bear_end, bear_min,
                 in_bear_market, min_value, j, it, price_start, price_now,
                 synth>>

\* lines 82-87: the fallback after the outer loop, and the return
PostLoop ==
  /\ pc = "post_loop"
  /\ IF "in_bear_market" \notin bound
       THEN /\ err' = "UnboundLocalError"
            /\ pc' = "raised"
            /\ UNCHANGED detector
       ELSE /\ IF in_bear_market /\ bear_end = None
                 THEN /\ bear_end' = Len(data) - 1
                      /\ percent_loss' = PercentLoss(min_value, price_start)
                      /\ bear_markets' = Append(bear_markets,
                           Interval(bear_start, bear_min, bear_end', percent_loss'))
                 ELSE UNCHANGED <<bear_end, percent_loss, bear_markets>>
            /\ pc' = "returned"
            /\ err' = err
            /\ UNCHANGED <<bound, bear_start, bear_min, in_bear_market,
                           min_value, i, j, it, price_start, price_now>>
  /\ UNCHANGED <<data, recovery_limit, synth>>

\* lines 197-198, 107-109: main hands the intervals to identify_bull_markets
CallIdentify ==
  /\ pc = "returned"
  /\ final_periods' = << >>
  /\ last_bear_end' = Date(0)
  /\ last_bear' = NoBear
  /\ k' = 1
  /\ pc' = "synth_for"
  /\ UNCHANGED <<data, recovery_limit, err, detector>>

\* lines 111-145: one bear interval, preceded by the Bull regime of its gap
SynthIter ==
  /\ pc = "synth_for"
  /\ k <= Len(bear_markets)
  /\ LET bear == BearRegime(data, bear_markets[k])
         start_value == IF last_bear = NoBear THEN Loc(data, last_bear_end)
                        ELSE last_bear.Trough_Price
         start_date == IF last_bear = NoBear THEN last_bear_end
                       ELSE last_bear.Trough_Date
         end_value == Loc(data, bear.Peak_Date)
         end_date == bear.Peak_Date
         withBull == IF GapBefore(last_bear_end, bear.Peak_Date)
                       THEN Append(final_periods,
                              BullRegime(start_date, end_date, start_value, end_value))
                       ELSE final_periods
     IN /\ final_periods' = Append(withBull, bear)
        /\ last_bear' = bear
        /\ last_bear_end' = bear.Trough_Date
  /\ k' = k + 1
  /\ UNCHANGED <<data, recovery_limit, pc, err, detector>>

\* lines 146-161: the trailing Bull regime, and the return
SynthTail ==
  /\ pc = "synth_for"
  /\ k > Len(bear_markets)
  /\ IF GapAfter(last_bear_end, data)
       THEN IF last_bear = NoBear
              THEN \* line 152: None["Trough Price"]
                   /\ err' = "TypeError"
                   /\ pc' = "raised"
                   /\ UNCHANGED final_periods
              ELSE /\ final_periods' = Append(final_periods,
                        BullRegime(last_bear_end, LastDate(data),
                                   last_bear.Trough_Price,
                                   At(data, Len(data) - 1)))
                   /\ pc' = "done"
                   /\ err' = err
       ELSE /\ pc' = "done"
            /\ UNCHANGED <<err, final_periods>>
  /\ UNCHANGED <<data, recovery_limit, detector, last_bear_end, last_bear, k>>

Next ==
  \/ WhileEnter
  \/ WhileExit
  \/ ForIter
  \/ ForExhausted
  \/ AfterFor
  \/ PostLoop
  \/ CallIdentify
  \/ SynthIter
  \/ SynthTail

Spec == Init /\ [][Next]_vars

\* ================================================================ claims
\* the inputs the detector is specified for: at least two prices (positive
\* by construction) and a recovery limit strictly between 0 and 1
ValidInput ==
  /\ Len(data) >= 2
  /\ 0 < recovery_limit[1]
  /\ recovery_limit[1] < recovery_limit[2]

\* the last index of the series
LastIdx == Len(data) - 1

\* the end of an interval, an absent end counting as the last index
EndOf(b) == IF b.end = None THEN LastIdx ELSE b.end

\* find_bear_markets has returned its list
Returned == pc \in {"returned", "synth_for", "done"}

\* the outer loop's last scan ran off the end of the series in a bear market
EndedInBear == Returned /\ in_bear_market

\* C1: the returned intervals are ordered by start index and each starts at
\* or after the end of the one before it (an absent end is the last index).
C1_OrderedNonOverlapping ==
  (ValidInput /\ Returned) =>
    \A n \in 1..(Len(bear_markets) - 1) :
      /\ bear_markets[n].start <= bear_markets[n + 1].start
      /\ bear_markets[n + 1].start >= EndOf(bear_markets[n])

\* C2: when the series ends inside a bear market, that bear market is
\* emitted exactly once, with end absent, as the last element of the list.
C2_OneOpenInterval ==
  (ValidInput /\ EndedInBear) =>
    LET L == Len(bear_markets) IN
      /\ L >= 1
      /\ bear_markets[L].start = bear_start
      /\ bear_markets[L].end = None
      /\ Cardinality({n \in 1..L : /\ bear_markets[n].start = bear_start
                                   /\ bear_markets[n].trough = bear_min}) = 1

\* C3: the timeline never holds two consecutive regimes of the same type.
C3_Alternation ==
  (ValidInput /\ pc = "done") =>
    \A n \in 1..(Len(final_periods) - 1) :
      final_periods[n].Market_Type # final_periods[n + 1].Market_Type

\* the date span of a regime, between its Trough Date and its Peak Date
SpanLo(r) == IF r.Trough_Date <= r.Peak_Date THEN r.Trough_Date ELSE r.Peak_Date
SpanHi(r) == IF r.Trough_Date <= r.Peak_Date THEN r.Peak_Date ELSE r.Trough_Date

\* C4: the regimes' date spans tile [first date, last date]: the first span
\* begins at the first date, each begins where the previous one ends, and
\* the last ends at the last date.
C4_Tiling ==
  (ValidInput /\ pc = "done") =>
    LET L == Len(final_periods) IN
      /\ L >= 1
      /\ SpanLo(final_periods[1]) = Date(0)
      /\ \A n \in 1..(L - 1) :
           SpanLo(final_periods[n + 1]) = SpanHi(final_periods[n])
      /\ SpanHi(final_periods[L]) = LastDate(data)

StrictlyIncreasing(s) == \A n \in 1..(Len(s) - 1) : s[n] < s[n + 1]

\* C5: on a strictly increasing series the detector returns the empty list
\* and the synthesizer returns, without failing, exactly one Bull regime
\* from the first point to the last.
C5_IncreasingIsOneBull ==
  (ValidInput /\ StrictlyIncreasing(data)) =>
    /\ Returned => bear_markets = << >>
    /\ pc # "raised"
    /\ pc = "done" =>
         final_periods = << BullRegime(Date(0), LastDate(data),
                                       At(data, 0), At(data, LastIdx)) >>

\* C6: when the series ends inside a bear market, the detector's final
\* interval has end absent, its Bear regime is closed at the last index, and
\* the timeline ends with that Bear regime.
C6_OpenBearEndsTimeline ==
  (ValidInput /\ EndedInBear) =>
    /\ bear_markets[Len(bear_markets)].end = None
    /\ pc = "done" =>
         LET last == final_periods[Len(final_periods)] IN
           /\ last.Market_Type = "Bear"
           /\ last.Peak_Date = Date(bear_start)
           /\ last.Number_Of_Days = LastDate(data) - Date(bear_start)

\* the scan from anchor bear_start was abandoned at j: not in a bear
\* market, and price[j] above the anchor's price (a scan that exhausts the
\* series without a bear market never sees a price above the anchor)
AbandonedAtJ ==
  /\ pc = "while"
  /\ "j" \in bound
  /\ ~in_bear_market
  /\ At(data, j) > At(data, bear_start)

\* C7: after a scan is abandoned at j, nothing is recorded for its anchor
\* and the next anchor of the outer loop is exactly j.
C7_AbandonRestartsAtJ ==
  (ValidInput /\ AbandonedAtJ) =>
    /\ i = j
    /\ \A n \in 1..Len(bear_markets) : bear_markets[n].start # bear_start

\* C8: the trough of every emitted interval is the minimum of the interval.
C8_TroughIsMinimum ==
  ValidInput =>
    \A n \in 1..Len(bear_markets) :
      LET b == bear_markets[n] IN
        \A x \in b.start..EndOf(b) : At(data, b.trough) <= At(data, x)

\* an interval closed by a recovery at end + 1, whose trough is a new minimum
\* found after the bear market was entered
C8_Witness ==
  /\ ValidInput
  /\ Returned
  /\ \E n \in 1..Len(bear_markets) :
       LET b == bear_markets[n] IN
         /\ b.end # None
         /\ b.end < LastIdx
         /\ RecoveryBreached(At(data, b.end + 1), At(data, b.trough), recovery_limit)
         /\ \E x \in (b.start + 1)..(b.trough - 1) :
              /\ DeclineBreached(At(data, x), At(data, b.start), recovery_limit)
              /\ At(data, b.trough) < At(data, x)
         /\ b.end > b.trough

\* C9: the loss of every emitted interval, the post-loop one included, is
\* (price[trough] - price[start]) / price[start] * 100 and is <= 0.
C9_LossFromAnchor ==
  ValidInput =>
    \A n \in 1..Len(bear_markets) :
      LET b == bear_markets[n] IN
        /\ b.loss.den > 0
        /\ b.loss.num * At(data, b.start)
             = (At(data, b.trough) - At(data, b.start)) * 100 * b.loss.den
        /\ b.loss.num <= 0

\* the post-loop fallback has emitted an interval for an anchor that is not
\* the first one scanned, after an earlier bear market was recorded
C9_Witness ==
  /\ ValidInput
  /\ EndedInBear
  /\ Len(bear_markets) >= 3
  /\ bear_markets[Len(bear_markets)].end = LastIdx
  /\ bear_markets[Len(bear_markets)].start > bear_markets[1].start
  /\ At(data, bear_markets[Len(bear_markets)].start) # At(data, bear_markets[1].start)

\* C10: a series of fewer than two prices is rejected with a validation
\* error (ValueError, as at line 16) and no list is returned.
C10_ShortSeriesRejected ==
  (Len(data) < 2 /\ recovery_limit \in ValidLimits) =>
    /\ ~Returned
    /\ pc = "raised" => err = "ValueError"

\* a recovery limit that is not strictly between 0 and 1
LimitOutOfRange ==
  ~(0 < recovery_limit[1] /\ recovery_limit[1] < recovery_limit[2])

\* C11: with a recovery limit outside (0,1) the detector fails with a
\* validation error (ValueError, as at line 16) and returns no list.
C11_BadLimitRejected ==
  (Len(data) >= 2 /\ LimitOutOfRange) =>
    /\ ~Returned
    /\ pc = "raised" => err = "ValueError"

\* the interval the worked scenario is specified to yield
ScenarioInterval == Interval(0, 2, 3, [num |-> -21, den |-> 1])

\* the scan of the worked scenario from anchor 0 has handled index x
ScenarioAt(x) ==
  /\ data = ScenarioPrices
  /\ recovery_limit = ScenarioLimit
  /\ pc \in {"for", "after_for"}
  /\ bear_start = 0
  /\ j = x

\* C12: on [100, 90, 79, 85, 95] with threshold 1/5 the bear market is
\* entered at index 2, is still open at index 3, is ended by index 4 with
\* end 3, and the detector returns exactly (0, 2, 3, -21).
C12_Scenario ==
  /\ ScenarioAt(1) => ~in_bear_market
  /\ ScenarioAt(2) => in_bear_market /\ bear_min = 2 /\ bear_end = None
  /\ ScenarioAt(3) => in_bear_market /\ bear_min = 2 /\ bear_end = None
  /\ ScenarioAt(4) => in_bear_market /\ bear_min = 2 /\ bear_end = 3
  /\ (data = ScenarioPrices /\ recovery_limit = ScenarioLimit /\ Returned) =>
       /\ Len(bear_markets) = 1
       /\ bear_markets[1].start = ScenarioInterval.start
       /\ bear_markets[1].trough = ScenarioInterval.trough
       /\ bear_markets[1].end = ScenarioInterval.end
       /\ bear_markets[1].loss.num * ScenarioInterval.loss.den
            = ScenarioInterval.loss.num * bear_markets[1].loss.den

\* the detector has returned from the worked scenario
C12_Witness ==
  /\ data = ScenarioPrices
  /\ recovery_limit = ScenarioLimit
  /\ pc = "returned"
  /\ Len(bear_markets) >= 1

\* C13: given a non-empty interval list, the timeline ends with a trailing
\* Bull regime exactly when the last interval's trough is not the last
\* point, and that Bull runs from the last bear's trough (date and price)
\* to the last point (date and price).
C13_TrailingBull ==
  (pc = "done" /\ Len(bear_markets) >= 1) =>
    LET b == bear_markets[Len(bear_markets)]
        L == Len(final_periods)
        last == final_periods[L]
    IN /\ L >= 1
       /\ (last.Market_Type = "Bull") <=> (b.trough # LastIdx)
       /\ last.Market_Type = "Bull" =>
            /\ last.Trough_Date = Date(b.trough)
            /\ last.Trough_Price = At(data, b.trough)
            /\ last.Peak_Date = LastDate(data)
            /\ last.Peak_Price = At(data, LastIdx)
            /\ L >= 2
            /\ final_periods[L - 1] = BearRegime(data, b)
       /\ last.Market_Type # "Bull" => last = BearRegime(data, b)

\* a timeline that ends with the trailing Bull after a closed bear market
C13_Witness ==
  /\ ValidInput
  /\ pc = "done"
  /\ Len(bear_markets) >= 1
  /\ bear_markets[Len(bear_markets)].end # None
  /\ bear_markets[Len(bear_markets)].end < LastIdx
  /\ final_periods[Len(final_periods)].Market_Type = "Bull"

\* the program is sequential: a step that is enabled is eventually taken
FairSpec == Spec /\ WF_vars(Next)

\* find_bear_markets is running
Scanning == pc \in {"while", "for", "after_for", "post_loop"}

\* every pass of the outer loop leaves the anchor beyond the one it scanned
AnchorAdvances ==
  [][(ValidInput /\ pc = "after_for") => i' > bear_start]_vars

\* C14: on a series of at least two prices with a limit in (0,1) every pass
\* of the outer loop strictly increases the anchor i, and the detector
\* returns.
C14_Terminates ==
  /\ AnchorAdvances
  /\ (ValidInput /\ Scanning) ~> (pc = "returned")

\* the detector has returned after scanning from several anchors, one of
\* them the end of a recorded bear market
C14_Witness ==
  /\ ValidInput
  /\ pc = "returned"
  /\ Len(bear_markets) >= 2
  /\ bear_markets[1].end # None
  /\ bear_start > bear_markets[1].end

\* C15: every Bull regime of the timeline has a Peak Price at least its
\* Trough Price, hence a Percent Gain >= 0.
C15_BullIsGrowth ==
  (ValidInput /\ pc = "done") =>
    \A n \in 1..Len(final_periods) :
      LET r == final_periods[n] IN
        r.Market_Type = "Bull" =>
          /\ r.Peak_Price >= r.Trough_Price
          /\ r.Percent_Gain.num >= 0

\* the inner loop is about to test the price at index `it'
AtForIter == pc = "for" /\ it < Len(data)

\* C16: both threshold tests are inclusive.  Not in a bear market, a price
\* equal to price[i] * (1 - limit) enters it.  In a bear market, min_value
\* is the lowest price since the anchor, a price equal to
\* min_value * (1 + limit) ends it with end = j - 1, and a price below
\* min_value * (1 + limit) does not end it.
C16_InclusiveThresholds ==
  [][(ValidInput /\ AtForIter) =>
       LET pn == At(data, it)
           ps == At(data, bear_start)
           num == recovery_limit[1]
           den == recovery_limit[2]
       IN /\ (~in_bear_market /\ pn * den = ps * (den - num))
               => in_bear_market' /\ min_value' = pn /\ bear_min' = it
          /\ in_bear_market
               => /\ \A x \in (bear_start + 1)..j : min_value <= At(data, x)
                  /\ min_value = At(data, bear_min)
                  /\ bear_min \in (bear_start + 1)..j
          /\ (in_bear_market /\ pn * den = min_value * (den + num))
               => bear_end' = it - 1 /\ pc' = "after_for"
          /\ (in_bear_market /\ pn * den < min_value * (den + num))
               => bear_end' = None /\ pc' = "for"
    ]_vars

\* a bear market entered below the anchor's threshold has just been ended
\* by a price exactly at min_value * (1 + limit), which is still under the
\* anchor's price
C16_Witness ==
  /\ ValidInput
  /\ pc = "after_for"
  /\ in_bear_market
  /\ bear_end = j - 1
  /\ price_now * recovery_limit[2]
       = min_value * (recovery_limit[2] + recovery_limit[1])
  /\ price_now < price_start

\* C17: every emitted interval with an end has start <= trough <= end, and
\* its end is at most the last index.
C17_IndexOrder ==
  ValidInput =>
    \A n \in 1..Len(bear_markets) :
      LET b == bear_markets[n] IN
        b.end # None =>
          /\ b.start <= b.trough
          /\ b.trough <= b.end
          /\ b.end <= LastIdx

\* an interval closed by a recovery right after its trough (trough = end)
\* has been returned, the recovery being seen before the last index
C17_Witness ==
  /\ ValidInput
  /\ Returned
  /\ \E n \in 1..Len(bear_markets) :
       LET b == bear_markets[n] IN
         /\ b.end # None
         /\ b.trough = b.end
         /\ b.start < b.trough
         /\ b.end + 1 < LastIdx

\* C18: the anchor of every emitted interval is the maximum of the interval
\* and the trough is at or below the anchor's price times (1 - limit).
C18_AnchorIsMaximum ==
  ValidInput =>
    \A n \in 1..Len(bear_markets) :
      LET b == bear_markets[n] IN
        /\ \A x \in b.start..EndOf(b) : At(data, b.start) >= At(data, x)
        /\ At(data, b.trough) * recovery_limit[2]
             <= At(data, b.start) * (recovery_limit[2] - recovery_limit[1])

\* a returned interval in which the price rose again after the trough
\* without ending the bear market
C18_Witness ==
  /\ ValidInput
  /\ Returned
  /\ \E n \in 1..Len(bear_markets) :
       LET b == bear_markets[n] IN
         \E x \in (b.trough + 1)..EndOf(b) : At(data, x) > At(data, b.trough)

\* C19: an end index that is set is never 0, so the truthiness tests of
\* lines 78 and 120 decide exactly whether the end is absent.
C19_EndNeverZero ==
  ValidInput =>
    /\ bear_end # None => bear_end >= 1
    /\ Truthy(bear_end) <=> bear_end # None
    /\ \A n \in 1..Len(bear_markets) :
         /\ bear_markets[n].end # None => bear_markets[n].end >= 1
         /\ Truthy(bear_markets[n].end) <=> bear_markets[n].end # None

\* a recovery at index 2 has set the smallest possible end index, 1, and
\* the anchor has moved to it
C19_Witness ==
  /\ ValidInput
  /\ pc = "while"
  /\ in_bear_market
  /\ bear_end = 1
  /\ i = 1
  /\ Len(bear_markets) = 1
  /\ bear_markets[1].end = 1

=============================================================================
